---- MODULE Spec2Model ----
(***************************************************************************)
(* A model of static/app.py, the Flask glaucoma-detection service:         *)
(*   - index (POST /): sweep of the upload folder, naming and saving of    *)
(*     the upload, model_predict, chart rendering, response;               *)
(*   - cleanup_old_files: the eviction sweep, one os call per step;        *)
(*   - model_predict and download_report as operators.                     *)
(* Spec runs the upload route on two threads, SeqSpec on one, and PureSpec *)
(* applies model_predict and download_report to inputs drawn at the start. *)
(* The upload folder is a map from storage keys to the modification time   *)
(* and content of the file; time is in whole seconds.                      *)
(* Probabilities are fixed-point: p stands for p / PScale.  A confidence   *)
(* is kept in the same unit (percent * PScale); the confidence shown to    *)
(* the user, round(confidence, 2), is kept in hundredths of a percent; the *)
(* pair preds is kept in units of 1 / (2 * PScale), so that 0.5 is PScale. *)
(***************************************************************************)
EXTENDS Integers, FiniteSets, Sequences, TLC

\* ------------------------------------------------------------------ bounds
\* Resolution of the classifier output: p ranges over 0..PScale.
PScale == 100
\* Upload requests (POST /) started over a run.
MaxReq == 2

\* Worker threads of the threaded server (app.run(threaded=True)).
Workers == {1, 2}
\* Instants (seconds) the wall clock is sampled at: the start of the
\* process and one second past the retention window.
Times == {2, 3601}

\* --------------------------------------------------------------- constants
\* "if file_age > 3600"
Retention == 3600

NoKey == [kind |-> "none", ts |-> 0, name |-> ""]
NoDiag == [label |-> "none", conf |-> 0, preds |-> <<0, 0>>]
NoResp ==
    [page |-> "none", error |-> "", prediction |-> "", confidence |-> 0,
     filename |-> NoKey]
NoUpload == [kind |-> "none", raw |-> "", img |-> FALSE]

\* Filenames a client may send, and whether the bytes decode as an image.
RawNames == {"../eye.png", "scan 1.png"}
Uploads ==
    {[kind |-> "nofile", raw |-> "", img |-> FALSE],
     [kind |-> "file", raw |-> "", img |-> FALSE]}
    \cup [kind : {"file"}, raw : RawNames, img : BOOLEAN]

VARIABLES
    now,         \* the wall clock, in seconds
    store,       \* the upload folder: key -> [mtime, img]
    nreq,        \* upload requests started so far
    pc,          \* where each worker is in index
    inp,         \* the upload of the request (until it is saved)
    ctime,       \* current_time of the worker's sweep
    todo,        \* names listed by the sweep and not yet visited
    cur,         \* the name the sweep is at
    delFailed,   \* names whose os.remove raised in the sweep
    evicted,     \* files the sweep deleted, with their mtime
    aborted,     \* the sweep ended in the outer except
    ts,          \* the request's timestamp
    fkey,        \* the key of the request's upload
    decErr,      \* load_img raised in the request
    clsRaised,   \* model.predict raised in the request
    chartFailed, \* drawing or saving the chart raised in the request
    rmFailed,    \* os.remove raised in the request's handler
    pred,        \* what model_predict returned
    resp,        \* the response of the request
    phase, argImg, argOut, argLabel, diag, report

reqVars ==
    <<now, store, nreq, pc, inp, ctime, todo, cur, delFailed, evicted,
      aborted, ts, fkey, decErr, clsRaised, chartFailed, rmFailed, pred,
      resp>>
pureVars == <<phase, argImg, argOut, argLabel, diag, report>>
vars == <<reqVars, pureVars>>

\* ---------------------------------------------------------- pure functions

\* werkzeug.utils.secure_filename on the names above: path separators and
\* leading dots are dropped, whitespace becomes an underscore.
SecureFilename(raw) ==
    CASE raw = "../eye.png" -> "eye.png"
      [] raw = "scan 1.png" -> "scan_1.png"
      [] OTHER -> ""

\* filename = timestamp + secure_filename(file.filename); the timestamp is
\* strftime("%Y%m%d_%H%M%S_"), one string per second.
UploadKey(t, raw) ==
    [kind |-> "upload", ts |-> t, name |-> SecureFilename(raw)]

\* f"plot_{timestamp}.png"
PlotKey(t) == [kind |-> "plot", ts |-> t, name |-> ".png"]

\* Outcomes of model.predict: it raises, or returns p / PScale.
Raised == [raised |-> TRUE, p |-> 0]
Returned(p) == [raised |-> FALSE, p |-> p]
ClsOutcomes == {Raised} \cup {Returned(p) : p \in 0..PScale}

\* Variant of Decide: the threshold is taken as pred >= 0.5.
DecideGE(p) ==
    IF 2 * p >= PScale
    THEN [label |-> "Glaucoma", conf |-> p * 100,
          preds |-> <<2 * (PScale - p), 2 * p>>]
    ELSE [label |-> "Normal", conf |-> (PScale - p) * 100,
          preds |-> <<2 * (PScale - p), 2 * p>>]

\* Variant of Decide: the confidence is always that of the Normal class.
DecideConfOfNormal(p) ==
    IF 2 * p > PScale
    THEN [label |-> "Glaucoma", conf |-> (PScale - p) * 100,
          preds |-> <<2 * (PScale - p), 2 * p>>]
    ELSE [label |-> "Normal", conf |-> (PScale - p) * 100,
          preds |-> <<2 * (PScale - p), 2 * p>>]

\* The threshold rule of model_predict on pred = p / PScale, and
\* preds = [1 - pred, pred].
Decide(p) ==
    IF 2 * p > PScale
    THEN [label |-> "Glaucoma", conf |-> p * 100,
          preds |-> <<2 * (PScale - p), 2 * p>>]
    ELSE [label |-> "Normal", conf |-> (PScale - p) * 100,
          preds |-> <<2 * (PScale - p), 2 * p>>]

\* The except branch of model_predict: "Error", 0.0, np.array([0.5, 0.5]).
Fallback == [label |-> "Error", conf |-> 0, preds |-> <<PScale, PScale>>]

\* Variant of ModelPredict: a failure is answered as the output 0.5.
ModelPredictAsTie(imgOk, out) ==
    IF ~imgOk \/ out.raised THEN Decide(PScale \div 2) ELSE Decide(out.p)

\* model_predict(img_path, model): imgOk is whether load_img succeeds, out
\* is the outcome of model.predict.  Both calls sit in the one try block.
ModelPredict(imgOk, out) ==
    IF ~imgOk \/ out.raised THEN Fallback ELSE Decide(out.p)

\* round(confidence, 2), in hundredths of a percent (half rounds up).
Round2(conf) == (2 * conf * 100 + PScale) \div (2 * PScale)

\* download_report: the cells and bullets that depend on the form field
\* "prediction".
Urgent ==
    {"consult an ophthalmologist immediately",
     "urgent appointment", "early detection", "bring this report",
     "additional diagnostic tests"}
Routine ==
    {"no signs of glaucoma detected",
     "regular eye examinations", "healthy lifestyle",
     "routine check-ups every 1-2 years", "report sudden vision changes"}

\* Variant of RiskTier: every label but Normal is High.
RiskTierNotNormal(prediction) ==
    IF prediction # "Normal" THEN "High" ELSE "Low"

\* 'High' if prediction == 'Glaucoma' else 'Low'
RiskTier(prediction) == IF prediction = "Glaucoma" THEN "High" ELSE "Low"

StatusLine(prediction) ==
    IF prediction = "Glaucoma" THEN "Signs of Glaucoma Detected"
    ELSE "No Signs of Glaucoma"

Recommendations(prediction) ==
    IF prediction = "Glaucoma" THEN Urgent ELSE Routine

DownloadReport(prediction, confidence) ==
    [status |-> StatusLine(prediction), confidence |-> confidence,
     risk |-> RiskTier(prediction), recs |-> Recommendations(prediction)]

NoReport ==
    [status |-> "none", confidence |-> 0, risk |-> "none", recs |-> {}]

\* Values of the form field "prediction" (the route trusts its caller).
Labels == {"Glaucoma", "Normal", "Error", "glaucoma", "Disease", ""}

\* Variant of Stale: the window is closed one second early.
StaleGE(age) == age >= Retention

\* "if file_age > 3600", on an age in whole seconds.
Stale(age) == age > Retention

\* The report route's answer when doc.build raises: the error page.
ReportError ==
    [status |-> "error", confidence |-> 0, risk |-> "none", recs |-> {}]

\* Values of the form field "confidence", in hundredths of a percent.
FormConfs == {0, 100 * 50, 100 * 92}

\* Outcomes of model.predict the upload route is run with: an exception,
\* the tie p = 0.5 (or the grid point below it) and p = 1.
Outcomes == {Raised, Returned(PScale \div 2), Returned(PScale)}

\* ------------------------------------------------------------ upload route

\* The upload folder as found at the start of the process: empty, or as
\* earlier requests left it.  One request of second 0 saved "eye.png" and
\* its chart in that second; another of second 1 saved "scan_1.png" in that
\* second and its chart in second 2.
FolderA ==
    [k \in {UploadKey(0, "../eye.png"), PlotKey(0)} |->
        [mtime |-> 0, img |-> TRUE]]
FolderAB ==
    [k \in {UploadKey(0, "../eye.png"), PlotKey(0),
            UploadKey(1, "scan 1.png"), PlotKey(1)} |->
        [mtime |-> IF k.ts = 0 THEN 0 ELSE IF k.kind = "upload" THEN 1 ELSE 2,
         img |-> TRUE]]
Folders == {<< >>, FolderA, FolderAB}

ReqInit ==
    /\ now = 2
    /\ store \in Folders
    /\ nreq = 0
    /\ pc = [w \in Workers |-> "idle"]
    /\ inp = [w \in Workers |-> NoUpload]
    /\ ctime = [w \in Workers |-> 0]
    /\ todo = [w \in Workers |-> {}]
    /\ cur = [w \in Workers |-> NoKey]
    /\ delFailed = [w \in Workers |-> {}]
    /\ evicted = [w \in Workers |-> {}]
    /\ aborted = [w \in Workers |-> FALSE]
    /\ ts = [w \in Workers |-> 0]
    /\ fkey = [w \in Workers |-> NoKey]
    /\ decErr = [w \in Workers |-> FALSE]
    /\ clsRaised = [w \in Workers |-> FALSE]
    /\ chartFailed = [w \in Workers |-> FALSE]
    /\ rmFailed = [w \in Workers |-> FALSE]
    /\ pred = [w \in Workers |-> NoDiag]
    /\ resp = [w \in Workers |-> NoResp]

PureIdle ==
    /\ phase = "off"
    /\ argImg = FALSE
    /\ argOut = Raised
    /\ argLabel = ""
    /\ diag = NoDiag
    /\ report = NoReport

\* render_template("index.html", error=...)
ErrorPage(msg) == [NoResp EXCEPT !.page = "index", !.error = msg]

\* render_template("result.html", result=result), lines 158-164.
ResultPage(d, k) ==
    [NoResp EXCEPT !.page = "result", !.prediction = d.label,
                   !.confidence = Round2(d.conf), !.filename = k]

\* An exception that leaves the route (the server answers 500).
Unhandled == [NoResp EXCEPT !.page = "exception"]

\* The store without key k.
Without(k) == [x \in DOMAIN store \ {k} |-> store[x]]

\* The store with key k (over)written now.
Written(k, img) ==
    [x \in DOMAIN store \cup {k} |->
        IF x = k THEN [mtime |-> now, img |-> img] ELSE store[x]]

\* The wall clock moves on to a later instant.
Tick(T) ==
    /\ \E t \in T : t > now /\ now' = t
    /\ UNCHANGED <<store, nreq, pc, inp, ctime, todo, cur, delFailed, evicted,
                   aborted, ts, fkey, decErr, clsRaised, chartFailed,
                   rmFailed, pred, resp, pureVars>>

\* index, lines 112-123 and cleanup_old_files, lines 54-58: the request is
\* refused without a file or a filename; otherwise the sweep reads the
\* clock and lists the upload folder.
Receive(w, U) ==
    /\ pc[w] = "idle"
    /\ nreq < MaxReq
    /\ nreq' = nreq + 1
    /\ \E u \in U :
        /\ inp' = [inp EXCEPT ![w] = u]
        /\ IF u.kind = "nofile"
           THEN /\ resp' = [resp EXCEPT ![w] = ErrorPage("No file uploaded")]
                /\ pc' = [pc EXCEPT ![w] = "done"]
                /\ UNCHANGED <<ctime, todo>>
           ELSE IF u.raw = ""
           THEN /\ resp' = [resp EXCEPT ![w] = ErrorPage("No file selected")]
                /\ pc' = [pc EXCEPT ![w] = "done"]
                /\ UNCHANGED <<ctime, todo>>
           ELSE /\ ctime' = [ctime EXCEPT ![w] = now]
                /\ todo' = [todo EXCEPT ![w] = DOMAIN store]
                /\ pc' = [pc EXCEPT ![w] = "sweep"]
                /\ UNCHANGED resp
    /\ UNCHANGED <<now, store, cur, delFailed, evicted, aborted, ts, fkey,
                   decErr, clsRaised, chartFailed, rmFailed, pred, pureVars>>

\* cleanup_old_files, lines 58-60: the next listed name; os.path.isfile is
\* False for a name that is gone, and the loop goes on.
SweepIsFile(w) ==
    /\ pc[w] = "sweep"
    /\ \E k \in todo[w] :
        /\ todo' = [todo EXCEPT ![w] = @ \ {k}]
        /\ IF k \in DOMAIN store
           THEN /\ cur' = [cur EXCEPT ![w] = k]
                /\ pc' = [pc EXCEPT ![w] = "mtime"]
           ELSE UNCHANGED <<cur, pc>>
    /\ UNCHANGED <<now, store, nreq, inp, ctime, delFailed, evicted, aborted,
                   ts, fkey, decErr, clsRaised, chartFailed, rmFailed, pred,
                   resp, pureVars>>

\* cleanup_old_files, lines 61-63 and 69-70: os.path.getmtime raises for a
\* name that is gone; that is outside the inner try, so the outer handler
\* ends the sweep.
SweepGetMtime(w) ==
    /\ pc[w] = "mtime"
    /\ IF cur[w] \notin DOMAIN store
       THEN /\ aborted' = [aborted EXCEPT ![w] = TRUE]
            /\ cur' = [cur EXCEPT ![w] = NoKey]
            /\ pc' = [pc EXCEPT ![w] = "swept"]
       ELSE IF Stale(ctime[w] - store[cur[w]].mtime)
       THEN /\ pc' = [pc EXCEPT ![w] = "remove"]
            /\ UNCHANGED <<aborted, cur>>
       ELSE /\ pc' = [pc EXCEPT ![w] = "sweep"]
            /\ cur' = [cur EXCEPT ![w] = NoKey]
            /\ UNCHANGED aborted
    /\ UNCHANGED <<now, store, nreq, inp, ctime, todo, delFailed, evicted, ts,
                   fkey, decErr, clsRaised, chartFailed, rmFailed, pred, resp,
                   pureVars>>

\* cleanup_old_files, lines 64-68: os.remove deletes the file, or raises
\* OSError (the file is gone, or in use), which is passed over.
SweepRemove(w) ==
    /\ pc[w] = "remove"
    /\ \/ /\ cur[w] \in DOMAIN store
          /\ store' = Without(cur[w])
          /\ evicted' = [evicted EXCEPT ![w] =
                @ \cup {[key |-> cur[w], mtime |-> store[cur[w]].mtime]}]
          /\ UNCHANGED delFailed
       \/ /\ delFailed' = [delFailed EXCEPT ![w] = @ \cup {cur[w]}]
          /\ UNCHANGED <<store, evicted>>
    /\ cur' = [cur EXCEPT ![w] = NoKey]
    /\ pc' = [pc EXCEPT ![w] = "sweep"]
    /\ UNCHANGED <<now, nreq, inp, ctime, todo, aborted, ts, fkey, decErr,
                   clsRaised, chartFailed, rmFailed, pred, resp, pureVars>>

\* cleanup_old_files: the for loop is exhausted and the function returns.
SweepEnd(w) ==
    /\ pc[w] = "sweep"
    /\ todo[w] = {}
    /\ pc' = [pc EXCEPT ![w] = "swept"]
    /\ UNCHANGED <<now, store, nreq, inp, ctime, todo, cur, delFailed,
                   evicted, aborted, ts, fkey, decErr, clsRaised, chartFailed,
                   rmFailed, pred, resp, pureVars>>

\* index, lines 126-129: the key is made from the clock and the sanitized
\* name, and file.save writes it; a failed save is outside the try block
\* and leaves the route as an exception.
Save(w) ==
    /\ pc[w] = "swept"
    /\ ts' = [ts EXCEPT ![w] = now]
    /\ fkey' = [fkey EXCEPT ![w] = UploadKey(now, inp[w].raw)]
    /\ \/ /\ store' = Written(UploadKey(now, inp[w].raw), inp[w].img)
          /\ pc' = [pc EXCEPT ![w] = "predict"]
          /\ UNCHANGED resp
       \/ /\ resp' = [resp EXCEPT ![w] = Unhandled]
          /\ pc' = [pc EXCEPT ![w] = "done"]
          /\ UNCHANGED store
    /\ todo' = [todo EXCEPT ![w] = {}]
    /\ delFailed' = [delFailed EXCEPT ![w] = {}]
    /\ evicted' = [evicted EXCEPT ![w] = {}]
    /\ aborted' = [aborted EXCEPT ![w] = FALSE]
    /\ ctime' = [ctime EXCEPT ![w] = 0]
    /\ inp' = [inp EXCEPT ![w] = NoUpload]
    /\ UNCHANGED <<now, nreq, cur, decErr, clsRaised, chartFailed, rmFailed,
                   pred, pureVars>>

\* index, line 133: model_predict on the saved file.  load_img fails when
\* the file is gone or is no image.
Predict(w, O) ==
    /\ pc[w] = "predict"
    /\ \E out \in O :
        LET imgOk == fkey[w] \in DOMAIN store /\ store[fkey[w]].img
        IN /\ pred' = [pred EXCEPT ![w] = ModelPredict(imgOk, out)]
           /\ decErr' = [decErr EXCEPT ![w] = ~imgOk]
           /\ clsRaised' = [clsRaised EXCEPT ![w] = imgOk /\ out.raised]
    /\ pc' = [pc EXCEPT ![w] = "chart"]
    /\ UNCHANGED <<now, store, nreq, inp, ctime, todo, cur, delFailed,
                   evicted, aborted, ts, fkey, chartFailed, rmFailed, resp,
                   pureVars>>

\* index, lines 136-164: the chart is drawn and saved under the plot key
\* of the request's timestamp, and the result page is returned.
ChartOk(w) ==
    /\ pc[w] = "chart"
    /\ store' = Written(PlotKey(ts[w]), TRUE)
    /\ resp' = [resp EXCEPT ![w] = ResultPage(pred[w], fkey[w])]
    /\ pc' = [pc EXCEPT ![w] = "done"]
    /\ UNCHANGED <<now, nreq, inp, ctime, todo, cur, delFailed, evicted,
                   aborted, ts, fkey, decErr, clsRaised, chartFailed,
                   rmFailed, pred, pureVars>>

\* Variant of ChartFail: the diagnosis is returned without a chart and
\* the upload is kept.
ChartFailKeep(w) ==
    /\ pc[w] = "chart"
    /\ chartFailed' = [chartFailed EXCEPT ![w] = TRUE]
    /\ resp' = [resp EXCEPT ![w] = ResultPage(pred[w], fkey[w])]
    /\ pc' = [pc EXCEPT ![w] = "done"]
    /\ UNCHANGED <<now, store, nreq, inp, ctime, todo, cur, delFailed,
                   evicted, aborted, ts, fkey, decErr, clsRaised, rmFailed,
                   pred, pureVars>>

\* index, lines 166-173: drawing or savefig raises; the handler removes
\* the upload (a failure of os.remove is passed over) and returns the
\* index page with the error message.
ChartFail(w) ==
    /\ pc[w] = "chart"
    /\ chartFailed' = [chartFailed EXCEPT ![w] = TRUE]
    /\ \/ /\ fkey[w] \in DOMAIN store
          /\ store' = Without(fkey[w])
          /\ UNCHANGED rmFailed
       \/ /\ rmFailed' = [rmFailed EXCEPT ![w] = TRUE]
          /\ UNCHANGED store
    /\ resp' = [resp EXCEPT ![w] =
                  ErrorPage("Error processing image. Please try again.")]
    /\ pc' = [pc EXCEPT ![w] = "done"]
    /\ UNCHANGED <<now, nreq, inp, ctime, todo, cur, delFailed, evicted,
                   aborted, ts, fkey, decErr, clsRaised, pred, pureVars>>

\* The response is sent and the worker is free for the next request.
Finish(w) ==
    /\ pc[w] = "done"
    /\ pc' = [pc EXCEPT ![w] = "idle"]
    /\ ts' = [ts EXCEPT ![w] = 0]
    /\ fkey' = [fkey EXCEPT ![w] = NoKey]
    /\ decErr' = [decErr EXCEPT ![w] = FALSE]
    /\ clsRaised' = [clsRaised EXCEPT ![w] = FALSE]
    /\ chartFailed' = [chartFailed EXCEPT ![w] = FALSE]
    /\ rmFailed' = [rmFailed EXCEPT ![w] = FALSE]
    /\ pred' = [pred EXCEPT ![w] = NoDiag]
    /\ resp' = [resp EXCEPT ![w] = NoResp]
    /\ UNCHANGED <<now, store, nreq, inp, ctime, todo, cur, delFailed,
                   evicted, aborted, pureVars>>

Handle(w, U, O) ==
    \/ Receive(w, U)
    \/ SweepIsFile(w)
    \/ SweepGetMtime(w)
    \/ SweepRemove(w)
    \/ SweepEnd(w)
    \/ Save(w)
    \/ Predict(w, O)
    \/ ChartOk(w)
    \/ ChartFail(w)
    \/ Finish(w)

Init == ReqInit /\ PureIdle

\* Requests handled concurrently, one thread each.
Next == Tick(Times) \/ \E w \in Workers : Handle(w, Uploads, Outcomes)

Spec == Init /\ [][Next]_vars

\* Requests handled one at a time.
SeqNext == Tick(Times) \/ Handle(1, Uploads, Outcomes)

SeqSpec == Init /\ [][SeqNext]_vars

\* ------------------------------------------- model_predict, download_report
\* The two functions applied to inputs drawn at the start: whether load_img
\* succeeds, the outcome of model.predict, and the form field "prediction".

PureInit ==
    /\ ReqInit
    /\ phase = "input"
    /\ argImg \in BOOLEAN
    /\ argOut \in ClsOutcomes
    /\ argLabel \in Labels
    /\ diag = NoDiag
    /\ report = NoReport

\* model_predict, lines 76-104.
RunModelPredict ==
    /\ phase = "input"
    /\ diag' = ModelPredict(argImg, argOut)
    /\ phase' = "predicted"
    /\ UNCHANGED <<argImg, argOut, argLabel, report, reqVars>>

\* download_report on the fields of the result page (index, lines 158-162):
\* the label and round(confidence, 2).  doc.build may raise (lines 376-379).
RunReportOfResult ==
    /\ phase = "predicted"
    /\ \/ report' = DownloadReport(diag.label, Round2(diag.conf))
       \/ report' = ReportError
    /\ phase' = "reported"
    /\ UNCHANGED <<argImg, argOut, argLabel, diag, reqVars>>

\* download_report on form fields of the caller's choosing (lines 191-192).
RunReportOfForm ==
    /\ phase = "input"
    /\ \E c \in FormConfs :
        \/ report' = DownloadReport(argLabel, c)
        \/ report' = ReportError
    /\ phase' = "form-reported"
    /\ UNCHANGED <<argImg, argOut, argLabel, diag, reqVars>>

PureNext == RunModelPredict \/ RunReportOfResult \/ RunReportOfForm

PureSpec == PureInit /\ [][PureNext]_vars

\* ------------------------------------------------------------------ claims

TryAgain == ErrorPage("Error processing image. Please try again.")

\* Request w has written its upload under fkey[w].
Saved(w) == pc[w] \in {"predict", "chart", "done"} /\ resp[w] # Unhandled

\* Request w has written its chart under PlotKey(ts[w]).
Charted(w) == pc[w] = "done" /\ resp[w].page = "result"

\* The storage keys request w has written so far.
KeysWritten(w) ==
    (IF Saved(w) THEN {fkey[w]} ELSE {})
    \cup (IF Charted(w) THEN {PlotKey(ts[w])} ELSE {})

\* model_predict ran the threshold rule on p = argOut.p / PScale.
Decided == phase \in {"predicted", "reported"} /\ argImg /\ ~argOut.raised

\* C1: for every model output p in [0, 1], p <= 0.5 gives Normal with
\* confidence (1 - p) * 100 and p > 0.5 gives Glaucoma with confidence
\* p * 100; p = 0.5 gives Normal.
C1_DecisionRule ==
    Decided =>
        /\ 2 * argOut.p <= PScale =>
              diag.label = "Normal" /\ diag.conf = (PScale - argOut.p) * 100
        /\ 2 * argOut.p > PScale =>
              diag.label = "Glaucoma" /\ diag.conf = argOut.p * 100
        /\ 2 * argOut.p = PScale => diag.label = "Normal"

\* The tie p = 0.5 has been decided, as Normal.
C1_Witness ==
    /\ Decided
    /\ 2 * argOut.p = PScale
    /\ diag.label = "Normal"
    /\ diag.conf = (PScale - argOut.p) * 100

\* C2: a sweep never deletes an artifact whose age is at most the retention
\* window, and once it has returned every artifact older than the window is
\* gone, except those whose deletion failed.
C2_EvictStale ==
    \A w \in Workers :
        /\ \A e \in evicted[w] : ctime[w] - e.mtime > Retention
        /\ pc[w] = "swept" =>
              \A k \in DOMAIN store :
                  ctime[w] - store[k].mtime > Retention => k \in delFailed[w]

\* A sweep has returned after evicting an artifact aged 3601, failing to
\* delete another stale one, and keeping artifacts aged 3600 and 3599.
C2_Witness ==
    \E w \in Workers :
        /\ pc[w] = "swept"
        /\ \E e \in evicted[w] : ctime[w] - e.mtime = Retention + 1
        /\ delFailed[w] # {}
        /\ \E k \in DOMAIN store : ctime[w] - store[k].mtime = Retention
        /\ \E k \in DOMAIN store : ctime[w] - store[k].mtime = Retention - 1

C4_ClassifierRaises ==
    \A w \in Workers :
        clsRaised[w] =>
            /\ pred[w].label = "Error"
            /\ pred[w].conf = 0
            /\ pred[w].preds = <<PScale, PScale>>
            /\ pc[w] \in {"chart", "done"}
            /\ pc[w] = "done" =>
                  \/ resp[w] = TryAgain
                  \/ /\ resp[w].page = "result"
                     /\ resp[w].prediction = "Error"
                     /\ resp[w].confidence = 0

\* The classifier raised and the request returned an Error-labelled result.
C4_Witness ==
    \E w \in Workers :
        /\ clsRaised[w]
        /\ pc[w] = "done"
        /\ resp[w].page = "result"
        /\ resp[w].prediction = "Error"

\* C5 as claimed: when the chart fails after a successful classification,
\* the request returns the diagnosis and the upload stays in the store.
C5_DiagnosisWithoutChart ==
    \A w \in Workers :
        /\ pc[w] = "done"
        /\ chartFailed[w]
        /\ pred[w].label \in {"Normal", "Glaucoma"}
        => /\ resp[w].page = "result"
           /\ resp[w].prediction = pred[w].label
           /\ fkey[w] \in DOMAIN store

\* C5 amended: when the chart fails after a successful classification, the
\* request returns the "try again" error page without the diagnosis, and
\* the upload is gone from the store unless its deletion failed.
C5_ChartFailureIsError ==
    \A w \in Workers :
        /\ pc[w] = "done"
        /\ chartFailed[w]
        /\ pred[w].label \in {"Normal", "Glaucoma"}
        => /\ resp[w] = TryAgain
           /\ fkey[w] \in DOMAIN store => rmFailed[w]

\* The chart failed after a Glaucoma diagnosis and the upload was removed.
C5_Witness ==
    \E w \in Workers :
        /\ pc[w] = "done"
        /\ chartFailed[w]
        /\ pred[w].label = "Glaucoma"
        /\ ~rmFailed[w]
        /\ fkey[w] \notin DOMAIN store
        /\ resp[w] = TryAgain

\* C6: when the upload cannot be decoded, the caller gets the "try again"
\* message, not an Error-labelled result, and the upload is removed.
C6_DecodeErrorDistinct ==
    \A w \in Workers :
        pc[w] = "done" /\ decErr[w]
        => /\ resp[w] = TryAgain
           /\ fkey[w] \notin DOMAIN store

\* A report was built from the fields of a result page of the decision rule.
ReportedResult == phase = "reported" /\ report # ReportError

\* A report was built from form fields of the caller's choosing.
ReportedForm == phase = "form-reported" /\ report # ReportError

TierOf(label) ==
    /\ report.risk = "High" <=> label = "Glaucoma"
    /\ report.risk = "Low" <=> label # "Glaucoma"
    /\ report.recs = Urgent <=> report.risk = "High"
    /\ report.recs = Routine <=> report.risk = "Low"
    /\ report.recs \cap Urgent = {} \/ report.recs \cap Routine = {}

\* C7: the risk tier is High iff the label is Glaucoma and Low otherwise;
\* the recommendations are the urgent set iff the tier is High and the
\* routine set otherwise, never both; p = 0.92 gives Glaucoma, 92.0, High,
\* urgent and p = 0.10 gives Normal, 90.0, Low, routine.
C7_ReportTier ==
    /\ ReportedForm => TierOf(argLabel)
    /\ ReportedResult => TierOf(diag.label)
    /\ ReportedResult /\ Decided /\ 100 * argOut.p = 92 * PScale =>
          /\ diag.label = "Glaucoma"
          /\ report.confidence = 92 * 100
          /\ report.risk = "High"
          /\ report.recs = Urgent
    /\ ReportedResult /\ Decided /\ 100 * argOut.p = 10 * PScale =>
          /\ diag.label = "Normal"
          /\ report.confidence = 90 * 100
          /\ report.risk = "Low"
          /\ report.recs = Routine

\* The report of p = 0.92 has been built, with tier High.
C7_Witness ==
    /\ ReportedResult
    /\ Decided
    /\ 100 * argOut.p = 92 * PScale
    /\ report.risk = "High"

\* C8 as claimed: the label is Normal or Glaucoma and the confidence is
\* strictly greater than 50 and at most 100.
C8_ConfidenceAbove50 ==
    Decided =>
        /\ diag.label \in {"Normal", "Glaucoma"}
        /\ diag.conf > 50 * PScale
        /\ diag.conf <= 100 * PScale

\* C8 amended: the label is Normal or Glaucoma and the confidence is at
\* least 50 and at most 100; it is 50 at p = 0.5.
C8_ConfidenceFrom50 ==
    Decided =>
        /\ diag.label \in {"Normal", "Glaucoma"}
        /\ diag.conf >= 50 * PScale
        /\ diag.conf <= 100 * PScale
        /\ 2 * argOut.p = PScale => diag.conf = 50 * PScale

\* A diagnosis has been produced with a confidence of exactly 50.
C8_Witness ==
    /\ Decided
    /\ diag.label \in {"Normal", "Glaucoma"}
    /\ diag.conf = 50 * PScale

\* C9: no request writes a key that another request also writes; two
\* requests with different sanitized filenames share neither their upload
\* key nor their chart key.
C9_NoSharedKeys ==
    \A w, v \in Workers :
        /\ w # v
        /\ Saved(w) /\ Saved(v)
        /\ fkey[w].name # fkey[v].name
        => KeysWritten(w) \cap KeysWritten(v) = {}

\* C10: a sweep that has returned has left behind no stale artifact that it
\* listed and did not reach, whatever the other sweep removed under it.
C10_SweepNotStopped ==
    \A w \in Workers :
        pc[w] = "swept" =>
            \A k \in todo[w] :
                ~(k \in DOMAIN store /\ ctime[w] - store[k].mtime > Retention)

====
